---- MODULE Spec2Model ----
(***************************************************************************)
(* Model of src/main.rs: main, poll_keys (the Input Poller) and draw_loop  *)
(* (the Render/Event Loop), the bounded mpsc queue between them and the    *)
(* broadcast shutdown channel.                                             *)
(*                                                                         *)
(* Each tokio::select! iteration is one atomic action: the branch taken is *)
(* chosen nondeterministically among the ready ones (the macro polls its   *)
(* branches in random order), and the code up to the next await follows.   *)
(* usize arithmetic is modelled on naturals: saturation at usize::MAX      *)
(* needs 2^64 events and is out of reach of every bounded run.             *)
(***************************************************************************)
EXTENDS Naturals, Sequences, FiniteSets

VARIABLES
    mainPc,        \* position of main (lines 34-56)
    mainResult,    \* what main returned: "none", "ok" or "err"
    rawMode,       \* terminal in raw mode
    altScreen,     \* terminal on the alternate screen
    printed,       \* lines printed to standard output by main
    pollPc,        \* position of poll_keys
    pollResult,    \* result of poll_keys: "none", "ok" or "err"
    pending,       \* the event poll_keys is suspended sending (line 134)
    decoded,       \* the item last returned by stream.next() (line 116)
    endSeen,       \* stream.next() has returned None
    drawPc,        \* position of draw_loop
    drawResult,    \* result of draw_loop: "none", "ok" or "err"
    state,         \* AppState owned by draw_loop
    maybe_event,   \* the local maybe_event of draw_loop (line 70)
    queue,         \* contents of the mpsc channel
    raised,        \* shutdown.send has been called (line 77)
    pollSig,       \* notifications unread in poll_keys' broadcast receiver
    drawSig,       \* notifications unread in draw_loop's broadcast receiver
    feed,          \* which input the terminal delivers: "free", "example", "burst"
    pos,           \* number of items decoded from the terminal so far
    produced,      \* history: events poll_keys handed to sender.send
    received,      \* history: events draw_loop got from stream.recv
    pollSeen,      \* history: notifications shutdown.recv() gave poll_keys
    drawSeen,      \* history: notifications shutdown_receiver.recv() gave draw_loop
    branch,        \* the branch the last select of draw_loop took
    iterDraws,     \* draws requested in the current iteration of draw_loop
    frame          \* what ui() last handed to the rendering widgets

vars == <<mainPc, mainResult, rawMode, altScreen, printed, pollPc, pollResult,
          pending, decoded, endSeen, drawPc, drawResult, state, maybe_event,
          queue, raised, pollSig, drawSig, feed, pos, produced, received,
          pollSeen, drawSeen, branch, iterDraws, frame>>

mainVars == <<mainPc, mainResult, rawMode, altScreen, printed>>
pollVars == <<pollPc, pollResult, pending, decoded, endSeen, pos, produced>>
drawVars == <<drawPc, drawResult, state, maybe_event, received, branch,
              iterDraws, frame>>
sigVars == <<raised, pollSig, drawSig, pollSeen, drawSeen>>
chanVars == <<queue, sigVars>>

-----------------------------------------------------------------------------
(* Bounds of the model *)

\* number of items the terminal delivers when the input is unconstrained
MaxKeys == 3
\* number of key presses of the burst input (more than the queue holds)
BurstLen == 20

(* Program constants *)

\* mpsc::channel(16)
Capacity == 16

-----------------------------------------------------------------------------
(* Domain events: enum Event *)

Key(c) == [tag |-> "Key", c |-> c]
ScrollDown == [tag |-> "ScrollDown", c |-> ""]
ScrollUp == [tag |-> "ScrollUp", c |-> ""]
LineBreak == [tag |-> "LineBreak", c |-> ""]
Exit == [tag |-> "Exit", c |-> ""]
\* Option::None where an Option<Event> is expected
NoEvent == [tag |-> "None", c |-> ""]

(* Items of crossterm's EventStream, as poll_keys tells them apart *)

KeyEvent(kind, code, c) == [type |-> "Key", kind |-> kind, code |-> code, c |-> c]
Press(code, c) == KeyEvent("Press", code, c)
\* a decoded event that is no key event (a resize, a mouse event, ...)
NonKey == [type |-> "Resize", kind |-> "", code |-> "", c |-> ""]
\* Some(Err(e)): the decoder reports an error
DecodeErr == [type |-> "Err", kind |-> "", code |-> "", c |-> ""]
\* None: the stream has ended
StreamEnd == [type |-> "End", kind |-> "", code |-> "", c |-> ""]
\* nothing decoded yet
NoInput == [type |-> "", kind |-> "", code |-> "", c |-> ""]

\* what the terminal can deliver when the input is unconstrained
Inputs ==
    { Press("Char", "q"), Press("Char", "h"), Press("Char", "i"),
      Press("Up", ""), Press("Down", ""), Press("Enter", ""), Press("Esc", ""),
      KeyEvent("Release", "Char", "q"), KeyEvent("Release", "Down", ""),
      KeyEvent("Repeat", "Char", "h"),
      NonKey, DecodeErr, StreamEnd }

\* the end-to-end input of the spec: h, i, Enter, Down, Down
ExampleKeys ==
    << Press("Char", "h"), Press("Char", "i"), Press("Enter", ""),
       Press("Down", ""), Press("Down", "") >>

\* a burst of key presses without 'q'
BurstCycle ==
    << Press("Char", "h"), Press("Down", ""), Press("Char", "i"),
       Press("Enter", ""), Press("Up", "") >>
BurstKey(i) == BurstCycle[((i - 1) % Len(BurstCycle)) + 1]

\* the items stream.next() can return next
NextInputs ==
    IF endSeen THEN {StreamEnd}
    ELSE IF feed = "free" THEN (IF pos < MaxKeys THEN Inputs ELSE {})
    ELSE IF feed = "example"
        THEN (IF pos < Len(ExampleKeys) THEN {ExampleKeys[pos + 1]} ELSE {})
    ELSE (IF pos < BurstLen THEN {BurstKey(pos + 1)} ELSE {})

-----------------------------------------------------------------------------
(* AppState and the pure parts of draw_loop *)

Seed == <<"H", "e", "l", "l", "o", ",", " ", "W", "o", "r", "l", "d", "!", "\n">>

\* AppState::default() followed by lines 66-67
InitialState ==
    [ text |-> Seed,
      line_count |-> 1,
      scroll_position |-> 0,
      scroll_state |-> [content_length |-> 0, position |-> 0] ]

Min(a, b) == IF a <= b THEN a ELSE b

SaturatingAdd(x, n) == x + n
SaturatingSub(x, n) == IF x >= n THEN x - n ELSE 0
Clamp(x, lo, hi) == IF x < lo THEN lo ELSE IF x > hi THEN hi ELSE x

\* ScrollbarState::next and ::prev of the widget library
ScrollbarNext(s) ==
    [s EXCEPT !.position =
        Min(SaturatingAdd(s.position, 1), SaturatingSub(s.content_length, 1))]
ScrollbarPrev(s) == [s EXCEPT !.position = SaturatingSub(s.position, 1)]

\* a Key arm that puts the character in front of the text
HandleKey_Prepend(s, c) == [s EXCEPT !.text = <<c>> \o s.text]

\* the arms of `match maybe_event` that change AppState (lines 80-101)
HandleKey(s, c) == [s EXCEPT !.text = Append(s.text, c)]

\* a LineBreak arm that scrolls to the new last line
HandleLineBreak_AutoScroll(s) ==
    [s EXCEPT !.text = Append(s.text, "\n"),
              !.line_count = s.line_count + 1,
              !.scroll_position = s.line_count + 1]

\* a LineBreak arm that forgets the line count
HandleLineBreak_NoCount(s) == [s EXCEPT !.text = Append(s.text, "\n")]

HandleLineBreak(s) ==
    [s EXCEPT !.text = Append(s.text, "\n"), !.line_count = s.line_count + 1]

\* a ScrollDown arm without the clamp
HandleScrollDown_Unclamped(s) ==
    [s EXCEPT !.scroll_position = SaturatingAdd(s.scroll_position, 1)]

HandleScrollDown(s) ==
    [s EXCEPT !.scroll_state = ScrollbarNext(s.scroll_state),
              !.scroll_position =
                  Clamp(SaturatingAdd(s.scroll_position, 1), 0, s.line_count)]

HandleScrollUp(s) ==
    [s EXCEPT !.scroll_state = ScrollbarPrev(s.scroll_state),
              !.scroll_position =
                  Clamp(SaturatingSub(s.scroll_position, 1), 0, s.line_count)]

Handle(s, e) ==
    CASE e.tag = "Key" -> HandleKey(s, e.c)
      [] e.tag = "LineBreak" -> HandleLineBreak(s)
      [] e.tag = "ScrollDown" -> HandleScrollDown(s)
      [] e.tag = "ScrollUp" -> HandleScrollUp(s)
      [] OTHER -> s

\* ui() without the recomputation of the scrollbar's content length
Ui_Stale(s) == s

\* ui(): the scrollbar's content length is recomputed before the frame is drawn
Ui(s) == [s EXCEPT !.scroll_state.content_length = s.line_count]

\* str::lines(): the text split at "\n", the last line with or without one
\* (no "\r" occurs in the text of this model)
RECURSIVE LinesFrom(_, _)
LinesFrom(text, cur) ==
    IF text = <<>> THEN (IF cur = <<>> THEN <<>> ELSE <<cur>>)
    ELSE IF Head(text) = "\n" THEN <<cur>> \o LinesFrom(Tail(text), <<>>)
    ELSE LinesFrom(Tail(text), Append(cur, Head(text)))
Lines(text) == LinesFrom(text, <<>>)

\* Iterator::skip(n)
Skip(seq, n) == IF n >= Len(seq) THEN <<>> ELSE SubSeq(seq, n + 1, Len(seq))

\* what ui() gives the widgets: the Paragraph's lines and the scrollbar state
Render(s) ==
    [ drawn |-> TRUE,
      lines |-> Skip(Lines(s.text), s.scroll_position),
      scroll_state |-> s.scroll_state ]

\* nothing has been drawn yet
NoFrame ==
    [ drawn |-> FALSE, lines |-> <<>>,
      scroll_state |-> [content_length |-> 0, position |-> 0] ]

(* The pure part of poll_keys: lines 121-132 *)

\* a mapping that does not look at the kind of the key event
MapKey_AnyKind(key) ==
    CASE key.code = "Char" /\ key.c = "q" -> Exit
      [] key.code = "Char" /\ key.c # "q" -> Key(key.c)
      [] key.code = "Up" -> ScrollUp
      [] key.code = "Down" -> ScrollDown
      [] key.code = "Enter" -> LineBreak
      [] OTHER -> NoEvent

MapKey(key) ==
    IF key.kind = "Press"
    THEN CASE key.code = "Char" /\ key.c = "q" -> Exit
           [] key.code = "Char" /\ key.c # "q" -> Key(key.c)
           [] key.code = "Up" -> ScrollUp
           [] key.code = "Down" -> ScrollDown
           [] key.code = "Enter" -> LineBreak
           [] OTHER -> NoEvent
    ELSE NoEvent

-----------------------------------------------------------------------------
(* Channel state derived from the tasks' positions *)

\* the mpsc receiver is dropped when draw_loop returns
RxDropped == drawPc = "done"
\* the mpsc sender is dropped when poll_keys returns
TxDropped == pollPc = "done"
\* the only broadcast sender is owned by draw_loop
ShutdownSenderDropped == drawPc = "done"

\* a shutdown.recv() that resolves at any time
PollShutdownReady_Always == TRUE

\* a shutdown.recv() that resolves for a value only, never for a closed channel
PollShutdownReady_ValueOnly == pollSig > 0

\* shutdown.recv() of poll_keys resolves: a value is waiting, or the channel is closed
PollShutdownReady == pollSig > 0 \/ ShutdownSenderDropped

\* branches of the select of draw_loop that are ready
DrawReady ==
    (IF queue # <<>> \/ TxDropped THEN {"recv"} ELSE {})
        \cup (IF drawSig > 0 THEN {"shutdown"} ELSE {})
        \cup {"timer"}

-----------------------------------------------------------------------------
Init ==
    /\ mainPc = "enable_raw"
    /\ mainResult = "none"
    /\ rawMode = FALSE
    /\ altScreen = FALSE
    /\ printed = <<>>
    /\ pollPc = "unspawned"
    /\ pollResult = "none"
    /\ pending = NoEvent
    /\ decoded = NoInput
    /\ endSeen = FALSE
    /\ drawPc = "unspawned"
    /\ drawResult = "none"
    /\ state = InitialState
    /\ maybe_event = NoEvent
    /\ queue = <<>>
    /\ raised = FALSE
    /\ pollSig = 0
    /\ drawSig = 0
    /\ feed \in {"free", "example", "burst"}
    /\ pos = 0
    /\ produced = <<>>
    /\ received = <<>>
    /\ pollSeen = 0
    /\ drawSeen = 0
    /\ branch = "none"
    /\ iterDraws = 0
    /\ frame = NoFrame

-----------------------------------------------------------------------------
(* main *)

\* line 35: enable_raw_mode()?
MainEnableRaw ==
    /\ mainPc = "enable_raw"
    /\ \E ok \in BOOLEAN :
        IF ok
        THEN /\ rawMode' = TRUE
             /\ mainPc' = "enter_alt"
             /\ UNCHANGED mainResult
        ELSE /\ mainPc' = "exited"
             /\ mainResult' = "err"
             /\ UNCHANGED rawMode
    /\ UNCHANGED <<altScreen, printed, pollVars, drawVars, chanVars, feed>>

\* line 36: stdout().execute(EnterAlternateScreen)?
MainEnterAlt ==
    /\ mainPc = "enter_alt"
    /\ \E ok \in BOOLEAN :
        IF ok
        THEN /\ altScreen' = TRUE
             /\ mainPc' = "spawn"
             /\ UNCHANGED mainResult
        ELSE /\ mainPc' = "exited"
             /\ mainResult' = "err"
             /\ UNCHANGED altScreen
    /\ UNCHANGED <<rawMode, printed, pollVars, drawVars, chanVars, feed>>

\* lines 37-40: the channels are created and both tasks spawned
MainSpawn ==
    /\ mainPc = "spawn"
    /\ mainPc' = "join_poll"
    /\ pollPc' = "select"
    /\ drawPc' = "start"
    /\ UNCHANGED <<mainResult, rawMode, altScreen, printed, pollResult, pending,
                   decoded, endSeen, pos, produced, drawResult, state,
                   maybe_event, received, branch, iterDraws, frame, chanVars,
                   feed>>

\* line 42: poll_task.await
MainJoinPoll ==
    /\ mainPc = "join_poll"
    /\ pollPc = "done"
    /\ mainPc' = "join_draw"
    /\ UNCHANGED <<mainResult, rawMode, altScreen, printed, pollVars, drawVars,
                   chanVars, feed>>

\* a main that does not wait for draw_loop
MainJoinDraw_NoWait ==
    /\ mainPc = "join_draw"
    /\ mainPc' = "disable_raw"
    /\ UNCHANGED <<mainResult, rawMode, altScreen, printed, pollVars, drawVars,
                   chanVars, feed>>

\* line 43: draw_task.await
MainJoinDraw ==
    /\ mainPc = "join_draw"
    /\ drawPc = "done"
    /\ mainPc' = "disable_raw"
    /\ UNCHANGED <<mainResult, rawMode, altScreen, printed, pollVars, drawVars,
                   chanVars, feed>>

\* line 45: disable_raw_mode()?
MainDisableRaw ==
    /\ mainPc = "disable_raw"
    /\ \E ok \in BOOLEAN :
        IF ok
        THEN /\ rawMode' = FALSE
             /\ mainPc' = "leave_alt"
             /\ UNCHANGED mainResult
        ELSE /\ mainPc' = "exited"
             /\ mainResult' = "err"
             /\ UNCHANGED rawMode
    /\ UNCHANGED <<altScreen, printed, pollVars, drawVars, chanVars, feed>>

\* line 46: stdout().execute(LeaveAlternateScreen)?
MainLeaveAlt ==
    /\ mainPc = "leave_alt"
    /\ \E ok \in BOOLEAN :
        IF ok
        THEN /\ altScreen' = FALSE
             /\ mainPc' = "report"
             /\ UNCHANGED mainResult
        ELSE /\ mainPc' = "exited"
             /\ mainResult' = "err"
             /\ UNCHANGED altScreen
    /\ UNCHANGED <<rawMode, printed, pollVars, drawVars, chanVars, feed>>

\* lines 48-55: the errors are printed and main returns Ok(())
MainReport ==
    /\ mainPc = "report"
    /\ printed' =
        (IF pollResult = "err" THEN <<"Polling error">> ELSE <<>>)
            \o (IF drawResult = "err" THEN <<"Drawing error">> ELSE <<>>)
    /\ mainResult' = "ok"
    /\ mainPc' = "exited"
    /\ UNCHANGED <<rawMode, altScreen, pollVars, drawVars, chanVars, feed>>

\* the exit code of the process: 0 when main returns Ok, 1 when it returns Err
ExitCode == IF mainResult = "ok" THEN 0 ELSE 1

-----------------------------------------------------------------------------
(* poll_keys *)

\* a shutdown branch that reports an error
PollShutdown_Err ==
    /\ pollPc = "select"
    /\ PollShutdownReady
    /\ pollPc' = "done"
    /\ pollResult' = "err"
    /\ pollSig' = IF pollSig > 0 THEN pollSig - 1 ELSE pollSig
    /\ pollSeen' = IF pollSig > 0 THEN pollSeen + 1 ELSE pollSeen
    /\ UNCHANGED <<mainVars, pending, decoded, endSeen, pos, produced, drawVars,
                   queue, raised, drawSig, drawSeen, feed>>

\* line 117: the shutdown branch of the select wins
PollShutdown ==
    /\ pollPc = "select"
    /\ PollShutdownReady
    /\ pollPc' = "done"
    /\ pollResult' = "ok"
    /\ pollSig' = IF pollSig > 0 THEN pollSig - 1 ELSE pollSig
    /\ pollSeen' = IF pollSig > 0 THEN pollSeen + 1 ELSE pollSeen
    /\ UNCHANGED <<mainVars, pending, decoded, endSeen, pos, produced, drawVars,
                   queue, raised, drawSig, drawSeen, feed>>

\* lines 116, 119: stream.next() yields None; nothing is done and the loop goes on
PollStreamEnd ==
    /\ pollPc = "select"
    /\ StreamEnd \in NextInputs
    /\ decoded' = StreamEnd
    /\ endSeen' = TRUE
    /\ pos' = IF endSeen THEN pos ELSE pos + 1
    /\ UNCHANGED <<mainVars, pollPc, pollResult, pending, produced, drawVars,
                   chanVars, feed>>

\* line 120: x? with x an error
PollDecodeError ==
    /\ pollPc = "select"
    /\ DecodeErr \in NextInputs
    /\ decoded' = DecodeErr
    /\ pos' = pos + 1
    /\ pollPc' = "done"
    /\ pollResult' = "err"
    /\ UNCHANGED <<mainVars, pending, endSeen, produced, drawVars, chanVars, feed>>

\* lines 120-133: an item that produces no event
PollIgnored ==
    /\ pollPc = "select"
    /\ \E x \in NextInputs :
        /\ x.type \in {"Key", "Resize"}
        /\ x.type = "Key" => MapKey(x) = NoEvent
        /\ decoded' = x
    /\ pos' = pos + 1
    /\ UNCHANGED <<mainVars, pollPc, pollResult, pending, endSeen, produced,
                   drawVars, chanVars, feed>>

\* a send that never waits for a free slot
PollKey_NoBackpressure ==
    /\ pollPc = "select"
    /\ \E x \in NextInputs :
        /\ x.type = "Key"
        /\ MapKey(x) # NoEvent
        /\ decoded' = x
        /\ produced' = Append(produced, MapKey(x))
        /\ IF RxDropped
           THEN /\ pollPc' = "done"
                /\ pollResult' = "err"
                /\ UNCHANGED <<pending, queue>>
           ELSE /\ queue' = Append(queue, MapKey(x))
                /\ UNCHANGED <<pollPc, pollResult, pending>>
    /\ pos' = pos + 1
    /\ UNCHANGED <<mainVars, endSeen, drawVars, sigVars, feed>>

\* lines 120-135: a key that produces an event, and the start of sender.send
PollKey ==
    /\ pollPc = "select"
    /\ \E x \in NextInputs :
        /\ x.type = "Key"
        /\ MapKey(x) # NoEvent
        /\ decoded' = x
        /\ produced' = Append(produced, MapKey(x))
        /\ IF RxDropped
           THEN \* the channel is closed: send fails and `?` returns the error
                /\ pollPc' = "done"
                /\ pollResult' = "err"
                /\ UNCHANGED <<pending, queue>>
           ELSE IF Len(queue) < Capacity
           THEN /\ queue' = Append(queue, MapKey(x))
                /\ UNCHANGED <<pollPc, pollResult, pending>>
           ELSE \* the queue is full: the task is suspended in send
                /\ pollPc' = "sending"
                /\ pending' = MapKey(x)
                /\ UNCHANGED <<pollResult, queue>>
    /\ pos' = pos + 1
    /\ UNCHANGED <<mainVars, endSeen, drawVars, sigVars, feed>>

\* a send that gives the event up once it had to wait
PollSendResume_Drop ==
    /\ pollPc = "sending"
    /\ ~RxDropped
    /\ Len(queue) < Capacity
    /\ pending' = NoEvent
    /\ pollPc' = "select"
    /\ UNCHANGED <<mainVars, pollResult, decoded, endSeen, pos, produced,
                   drawVars, chanVars, feed>>

\* line 134: a slot is free, the suspended send completes
PollSendResume ==
    /\ pollPc = "sending"
    /\ ~RxDropped
    /\ Len(queue) < Capacity
    /\ queue' = Append(queue, pending)
    /\ pending' = NoEvent
    /\ pollPc' = "select"
    /\ UNCHANGED <<mainVars, pollResult, decoded, endSeen, pos, produced,
                   drawVars, sigVars, feed>>

\* line 134: the receiver was dropped while the send was suspended
PollSendFail ==
    /\ pollPc = "sending"
    /\ RxDropped
    /\ pending' = NoEvent
    /\ pollPc' = "done"
    /\ pollResult' = "err"
    /\ UNCHANGED <<mainVars, decoded, endSeen, pos, produced, drawVars, chanVars,
                   feed>>

-----------------------------------------------------------------------------
(* draw_loop *)

\* lines 62-67: Terminal::new(..)? and the set-up of the loop
DrawStart ==
    /\ drawPc = "start"
    /\ \E ok \in BOOLEAN :
        IF ok
        THEN /\ drawPc' = "select"
             /\ UNCHANGED <<drawResult, queue>>
        ELSE /\ drawPc' = "done"
             /\ drawResult' = "err"
             /\ queue' = <<>>
    /\ UNCHANGED <<mainVars, pollVars, state, maybe_event, received, branch,
                   iterDraws, frame, sigVars, feed>>

\* lines 70-102: one select and the match on its result
\* line 72: the shutdown branch wins; break
DrawOnShutdown ==
    /\ branch' = "shutdown"
    /\ iterDraws' = 0
    /\ drawSig' = drawSig - 1
    /\ drawSeen' = drawSeen + 1
    /\ drawPc' = "done"
    /\ drawResult' = "ok"
    /\ queue' = <<>>
    /\ UNCHANGED <<state, maybe_event, received, frame, raised, pollSig, pollSeen>>

\* a timer branch that also takes the event waiting in the queue
DrawOnTimer_TakesEvent ==
    /\ branch' = "timer"
    /\ iterDraws' = 0
    /\ maybe_event' = NoEvent
    /\ drawPc' = "draw"
    /\ IF queue # <<>> /\ Head(queue) # Exit
       THEN /\ queue' = Tail(queue)
            /\ state' = Handle(state, Head(queue))
       ELSE UNCHANGED <<queue, state>>
    /\ UNCHANGED <<drawResult, received, frame, sigVars>>

\* a timer branch that goes round the loop without the draw
DrawOnTimer_NoDraw ==
    /\ branch' = "timer"
    /\ iterDraws' = 0
    /\ maybe_event' = NoEvent
    /\ drawPc' = "select"
    /\ UNCHANGED <<drawResult, state, received, frame, chanVars>>

\* line 73: the timer wins; maybe_event is None
DrawOnTimer ==
    /\ branch' = "timer"
    /\ iterDraws' = 0
    /\ maybe_event' = NoEvent
    /\ drawPc' = "draw"
    /\ UNCHANGED <<drawResult, state, received, frame, chanVars>>

\* a None of the closed channel that ends the loop
DrawOnClosed_Break ==
    /\ branch' = "recv"
    /\ iterDraws' = 0
    /\ maybe_event' = NoEvent
    /\ drawPc' = "done"
    /\ drawResult' = "ok"
    /\ UNCHANGED <<state, received, frame, chanVars>>

\* line 71 on a closed, empty channel: recv() yields None
DrawOnClosed ==
    /\ branch' = "recv"
    /\ iterDraws' = 0
    /\ maybe_event' = NoEvent
    /\ drawPc' = "draw"
    /\ UNCHANGED <<drawResult, state, received, frame, chanVars>>

\* lines 76-79: shutdown.send(Shutdown).ok(); break
DrawOnExit ==
    /\ branch' = "recv"
    /\ iterDraws' = 0
    /\ maybe_event' = Exit
    /\ received' = Append(received, Exit)
    /\ raised' = TRUE
    /\ pollSig' = IF pollPc = "done" THEN pollSig ELSE 1
    /\ drawSig' = 1
    /\ drawPc' = "done"
    /\ drawResult' = "ok"
    /\ queue' = <<>>
    /\ UNCHANGED <<state, frame, pollSeen, drawSeen>>

\* lines 80-100: an event that changes AppState
DrawOnEvent ==
    /\ branch' = "recv"
    /\ iterDraws' = 0
    /\ maybe_event' = Head(queue)
    /\ received' = Append(received, Head(queue))
    /\ queue' = Tail(queue)
    /\ state' = Handle(state, Head(queue))
    /\ drawPc' = "draw"
    /\ UNCHANGED <<drawResult, frame, sigVars>>

DrawBranch(b) ==
    CASE b = "shutdown" -> DrawOnShutdown
      [] b = "timer" -> DrawOnTimer
      [] b = "recv" /\ queue = <<>> -> DrawOnClosed
      [] b = "recv" /\ queue # <<>> /\ Head(queue) = Exit -> DrawOnExit
      [] b = "recv" /\ queue # <<>> /\ Head(queue) # Exit -> DrawOnEvent

DrawSelect ==
    /\ drawPc = "select"
    /\ \E b \in DrawReady : DrawBranch(b)
    /\ UNCHANGED <<mainVars, pollVars, feed>>

\* line 103: terminal.draw(|frame| ui(frame, &mut state))?
DrawFrame ==
    /\ drawPc = "draw"
    /\ state' = Ui(state)
    /\ frame' = Render(Ui(state))
    /\ iterDraws' = iterDraws + 1
    /\ drawPc' = "select"
    /\ UNCHANGED <<mainVars, pollVars, drawResult, maybe_event, received,
                   branch, chanVars, feed>>

\* line 103: the draw fails, before or after ui() ran, and `?` returns the error
DrawFrameFail ==
    /\ drawPc = "draw"
    /\ \E rendered \in BOOLEAN :
        IF rendered
        THEN state' = Ui(state) /\ frame' = Render(Ui(state))
        ELSE UNCHANGED <<state, frame>>
    /\ iterDraws' = iterDraws + 1
    /\ drawPc' = "done"
    /\ drawResult' = "err"
    /\ queue' = <<>>
    /\ UNCHANGED <<mainVars, pollVars, maybe_event, received, branch, sigVars,
                   feed>>

-----------------------------------------------------------------------------
Main ==
    \/ MainEnableRaw
    \/ MainEnterAlt
    \/ MainSpawn
    \/ MainJoinPoll
    \/ MainJoinDraw
    \/ MainDisableRaw
    \/ MainLeaveAlt
    \/ MainReport

Poll ==
    \/ PollShutdown
    \/ PollStreamEnd
    \/ PollDecodeError
    \/ PollIgnored
    \/ PollKey
    \/ PollSendResume
    \/ PollSendFail

Draw ==
    \/ DrawStart
    \/ DrawSelect
    \/ DrawFrame
    \/ DrawFrameFail

Next == Main \/ Poll \/ Draw

Spec == Init /\ [][Next]_vars

\* the scheduler runs every task that can take a step; the failures of the
\* terminal (a draw that fails, a decoder error) are never forced
FairSpec ==
    /\ Spec
    /\ WF_vars(Main)
    /\ WF_vars(Poll)
    /\ WF_vars(DrawStart \/ DrawSelect \/ DrawFrame)

-----------------------------------------------------------------------------
(* Helpers of the properties *)

IsPrefix(s, t) == Len(s) <= Len(t) /\ SubSeq(t, 1, Len(s)) = s
Last(s) == s[Len(s)]
\* the event poll_keys is suspended sending, as a sequence
PendingSeq == IF pollPc = "sending" THEN <<pending>> ELSE <<>>
\* draw_loop has just taken event e from the queue
Processed(e) ==
    /\ drawPc = "select"
    /\ received' = Append(received, e)
\* poll_keys has taken a step
PollStepped == pos' # pos \/ pollPc' # pollPc \/ endSeen' # endSeen
\* main has got past the joins and has called disable_raw_mode
TeardownStarted == mainPc \in {"leave_alt", "report"} \/ (mainPc = "exited" /\ pollPc = "done" /\ drawPc = "done")

-----------------------------------------------------------------------------
(* C1 *)

ScrollInRange == 0 <= state.scroll_position /\ state.scroll_position <= state.line_count

\* C1: scroll_position stays within [0, line_count] in every reachable state;
\* a ScrollUp processed at position 0 leaves it at 0 and a ScrollDown processed
\* at position line_count leaves it unchanged.
C1_ScrollClamped ==
    /\ ScrollInRange
    /\ [][ /\ ScrollInRange'
           /\ (Processed(ScrollUp) /\ state.scroll_position = 0)
                => state'.scroll_position = 0
           /\ (Processed(ScrollDown) /\ state.scroll_position = state.line_count)
                => state'.scroll_position = state.scroll_position ]_vars

\* a second ScrollDown has been processed with the position already at line_count
C1_Witness ==
    /\ Len(received) >= 2
    /\ received[Len(received) - 1] = ScrollDown
    /\ Last(received) = ScrollDown
    /\ state.scroll_position = state.line_count

-----------------------------------------------------------------------------
(* C2 *)

\* C2: once draw_loop has received Exit (and raised the shutdown), it requests
\* no further draw, and the next select iteration of poll_keys stops it,
\* whatever key events are ready at that moment (the key-event source has not
\* ended).
C2_StopWithinOneIteration ==
    [][ (raised /\ ~endSeen')
            => /\ drawPc' = "done"
               /\ PollStepped => pollPc' = "done" ]_vars

-----------------------------------------------------------------------------
(* C3 *)

\* C3: the events draw_loop has received are, in order, the first events
\* poll_keys produced, and while draw_loop runs every other produced event is
\* waiting in the queue or in the suspended send: none is dropped, duplicated
\* or reordered, also when more than Capacity events are produced.
C3_FifoNoLoss ==
    /\ IsPrefix(received, produced)
    /\ ~RxDropped => produced = received \o queue \o PendingSeq

\* the producer is suspended on a full queue while the loop is consuming
C3_Witness ==
    /\ pollPc = "sending"
    /\ Len(queue) = Capacity
    /\ Len(received) >= 1
    /\ Len(produced) > Capacity
    /\ \A i \in 1..Len(produced) : produced[i] # Exit

-----------------------------------------------------------------------------
(* C4 *)

RECURSIVE CharsOf(_)
CharsOf(events) ==
    IF events = <<>> THEN <<>> ELSE <<Head(events).c>> \o CharsOf(Tail(events))

\* C4: when every event received so far is a Character event, text is the
\* seed followed by the characters in the order received; timer ticks add
\* nothing.
C4_TextIsSeedPlusChars ==
    (\A i \in 1..Len(received) : received[i].tag = "Key")
        => state.text = Seed \o CharsOf(received)

\* two different characters were received and a timer tick followed
C4_Witness ==
    /\ received = <<Key("h"), Key("i")>>
    /\ maybe_event = NoEvent
    /\ drawPc = "draw"

-----------------------------------------------------------------------------
(* C5 *)

\* the per-event transitions as the specification states them
C5_Step(s, e) ==
    CASE e.tag = "Key" -> [s EXCEPT !.text = s.text \o <<e.c>>]
      [] e.tag = "LineBreak" ->
            [s EXCEPT !.text = s.text \o <<"\n">>, !.line_count = s.line_count + 1]
      [] e.tag = "ScrollDown" ->
            [s EXCEPT !.scroll_position =
                IF s.scroll_position + 1 > s.line_count
                THEN s.line_count ELSE s.scroll_position + 1]
      [] e.tag = "ScrollUp" ->
            [s EXCEPT !.scroll_position =
                IF s.scroll_position = 0 THEN 0 ELSE s.scroll_position - 1]
      [] OTHER -> s

RECURSIVE C5_Fold(_, _)
C5_Fold(s, events) ==
    IF events = <<>> THEN s ELSE C5_Fold(C5_Step(s, Head(events)), Tail(events))

C5_View(s) ==
    [text |-> s.text, line_count |-> s.line_count,
     scroll_position |-> s.scroll_position]

C5_SeedView ==
    [text |-> Seed, line_count |-> 1, scroll_position |-> 0]

C5_ExampleEvents == <<Key("h"), Key("i"), LineBreak, ScrollDown, ScrollDown>>

\* C5: when every produced event (none of them Exit) has been processed, the
\* state is the sequential fold of the per-event transitions over the produced
\* events from the seed state, however ticks and steps interleaved; after
\* h, i, Enter, Down, Down it is ("Hello, World!\nhi\n", 2, 2).
C5_SequentialFold ==
    ((\A i \in 1..Len(produced) : produced[i] # Exit) /\ received = produced)
        => /\ C5_View(state) = C5_Fold(C5_SeedView, produced)
           /\ produced = C5_ExampleEvents
                => C5_View(state) =
                     [text |-> Seed \o <<"h", "i", "\n">>,
                      line_count |-> 2, scroll_position |-> 2]

\* the five events of the example have all been processed
C5_Witness ==
    /\ feed = "example"
    /\ received = C5_ExampleEvents
    /\ drawPc = "select"

-----------------------------------------------------------------------------
(* C6 *)

ExitFirst == received # <<>> /\ received[1] = Exit
\* the press of 'q' that produced the Exit is the last item poll_keys decoded
LastDecodedIsQuit == produced = <<Exit>> /\ decoded = Press("Char", "q")
TornDown == mainPc = "exited" /\ ~rawMode /\ ~altScreen

\* C6 as stated: if Exit is the first event delivered to draw_loop, text is
\* still the seed, both tasks end without an error and the exit code is 0.
C6_ExitFirstNoError ==
    (ExitFirst /\ pollPc = "done" /\ drawPc = "done")
        => /\ state.text = Seed
           /\ pollResult = "ok"
           /\ drawResult = "ok"
           /\ TornDown => ExitCode = 0

\* C6 amended: if Exit is the first event delivered to draw_loop, text is
\* still the seed, draw_loop ends without an error and the exit code is 0 once
\* the terminal is restored; poll_keys ends without an error when the press of
\* 'q' is the last item it decoded.
C6_ExitFirstAmended ==
    (ExitFirst /\ drawPc = "done")
        => /\ state.text = Seed
           /\ drawResult = "ok"
           /\ (pollPc = "done" /\ LastDecodedIsQuit) => pollResult = "ok"
           /\ TornDown => ExitCode = 0

\* nothing was decoded after the 'q', both tasks have ended and main has returned
C6_Witness ==
    /\ ExitFirst
    /\ LastDecodedIsQuit
    /\ pollPc = "done"
    /\ drawPc = "done"
    /\ TornDown

-----------------------------------------------------------------------------
(* C7 *)

\* C7: once both tasks have stopped and main has returned, the exit code is 0
\* after a clean shutdown and non-zero when either task reported an error.
C7_ExitCodeReportsErrors ==
    (mainPc = "exited" /\ pollPc = "done" /\ drawPc = "done")
        => /\ (pollResult = "ok" /\ drawResult = "ok" /\ TornDown) => ExitCode = 0
           /\ (pollResult = "err" \/ drawResult = "err") => ExitCode # 0

-----------------------------------------------------------------------------
(* C8 *)

\* C8: once either task has ended with an error, main eventually runs the
\* terminal teardown.
C8_TeardownAfterFailure ==
    (pollResult = "err" \/ drawResult = "err") ~> TeardownStarted

-----------------------------------------------------------------------------
(* C9 *)

\* C9: when the key-event source has ended, poll_keys has terminated and the
\* shutdown has been raised.
C9_StopsAtStreamEnd == endSeen => (pollPc = "done" /\ raised)

-----------------------------------------------------------------------------
(* C10 *)

\* the table of the specification, from decoded item to the events emitted
C10_Table(x) ==
    IF x.type # "Key" \/ x.kind # "Press" THEN <<>>
    ELSE IF x.code = "Char" THEN (IF x.c = "q" THEN <<Exit>> ELSE <<Key(x.c)>>)
    ELSE IF x.code = "Up" THEN <<ScrollUp>>
    ELSE IF x.code = "Down" THEN <<ScrollDown>>
    ELSE IF x.code = "Enter" THEN <<LineBreak>>
    ELSE <<>>

\* C10: for every item poll_keys decodes, the events it emits are those of the
\* table: one event for a press of 'q', another character, Up, Down or Enter,
\* none for any other key, for a key release or repeat and for a non-key item.
C10_MappingTable ==
    [][ pos' # pos => produced' = produced \o C10_Table(decoded') ]_vars

\* a press, a release and an unmapped key have been decoded
C10_Witness ==
    /\ pos = 3
    /\ produced = <<ScrollUp>>
    /\ decoded = KeyEvent("Release", "Char", "q")

-----------------------------------------------------------------------------
(* C11 *)

\* the notification of the raise was put into poll_keys' receiver
PollNotified == pollSig + pollSeen >= 1

\* C11 as stated: the raise does not fail draw_loop, and once the signal is
\* raised and both tasks have ended, the receiver of draw_loop and (when it
\* was alive at the raise) the receiver of poll_keys have each observed
\* exactly one notification.
C11_EverySubscriberObservesOne ==
    (raised /\ pollPc = "done" /\ drawPc = "done")
        => /\ drawResult = "ok"
           /\ drawSeen = 1
           /\ PollNotified => pollSeen = 1

\* C11 amended: the raise does not fail draw_loop and happens at most once
\* (draw_loop has ended when the signal is raised); no receiver observes more
\* than one notification; the receiver of draw_loop observes none, and the
\* receiver of poll_keys has observed exactly one whenever poll_keys ended
\* without an error after the raise.
C11_AtMostOneNotification ==
    /\ pollSeen <= 1 /\ pollSig + pollSeen <= 1
    /\ drawSeen = 0 /\ drawSig <= 1
    /\ pollSeen = 1 => raised
    /\ raised => /\ drawPc = "done" /\ drawResult = "ok"
                 /\ (pollPc = "done" /\ pollResult = "ok") => pollSeen = 1

\* the signal was raised and poll_keys stopped on its notification
C11_Witness ==
    /\ raised
    /\ pollPc = "done"
    /\ pollResult = "ok"
    /\ pollSeen = 1
    /\ drawSig = 1

-----------------------------------------------------------------------------
(* C12 *)

\* C12: an iteration of draw_loop that handles a non-Exit event, a timer tick
\* or the None of a closed queue requests exactly one draw, and requests it
\* with the change of that iteration applied to AppState; an iteration that
\* observes the shutdown or an Exit requests none, and none follows it.
C12_OneDrawPerIteration ==
    [][ /\ iterDraws' <= 1
        /\ (drawPc' = "select" /\ branch' # "none") => iterDraws' = 1
        /\ (drawPc = "select" /\ drawPc' # "select")
            => /\ iterDraws' = 0
               /\ IF maybe_event' = Exit \/ branch' = "shutdown"
                  THEN drawPc' = "done"
                  ELSE drawPc' = "draw"
        /\ (drawPc = "draw" /\ drawPc' # "draw")
            => /\ iterDraws' = 1
               /\ C5_View(state) = C5_Fold(C5_SeedView, received)
               /\ maybe_event # NoEvent => Last(received) = maybe_event
        /\ drawPc = "done" => (iterDraws' = iterDraws /\ frame' = frame) ]_vars

\* the iteration that handled a LineBreak has ended with its single draw,
\* which showed the new line count
C12_Witness ==
    /\ drawPc = "select"
    /\ maybe_event = LineBreak
    /\ iterDraws = 1
    /\ frame.drawn
    /\ frame.scroll_state.content_length = 2

-----------------------------------------------------------------------------
(* C13 *)

\* C13: when the shutdown was raised while poll_keys was running, poll_keys
\* ends without an error, also when a key press was ready at that moment.
C13_PollerStopsCleanly ==
    (raised /\ PollNotified /\ pollPc = "done" /\ decoded.type = "Key")
        => pollResult = "ok"

-----------------------------------------------------------------------------
(* C14 *)

\* C14: the queue never holds more than Capacity events; a push onto a full
\* queue suspends poll_keys with the event kept, and while it is suspended
\* poll_keys decodes nothing and the event is neither dropped nor queued
\* before draw_loop has removed an event; the resumed push appends that event.
C14_BoundedQueueBackpressure ==
    [][ /\ Len(queue') <= Capacity
        /\ (pos' # pos /\ produced' # produced /\ Len(queue) = Capacity /\ ~RxDropped)
            => /\ pollPc' = "sending"
               /\ pending' = Last(produced')
               /\ queue' = queue
        /\ (pollPc = "sending" /\ ~RxDropped')
            => /\ pos' = pos /\ produced' = produced
               /\ IF pollPc' = "sending"
                  THEN pending' = pending
                  ELSE Len(queue) < Capacity /\ queue' = Append(queue, pending)
        /\ (pollPc = "sending" /\ Len(queue) = Capacity /\ ~RxDropped')
            => (pollPc' = "sending" /\ (queue' = queue \/ queue' = Tail(queue))) ]_vars

\* poll_keys is suspended on the full queue before draw_loop took any event
C14_Witness ==
    /\ pollPc = "sending"
    /\ pending # NoEvent
    /\ Len(queue) = Capacity
    /\ received = <<>>
    /\ ~RxDropped

-----------------------------------------------------------------------------
(* C15 *)

TasksUnspawned == pollPc = "unspawned" /\ drawPc = "unspawned"
TasksStopped == pollPc = "done" /\ drawPc = "done"

\* C15: the terminal is entered once, before either task starts; it is left
\* at most once and only after both tasks have stopped; and the error of a
\* task is printed only after both tasks were joined and the terminal was
\* restored.
C15_TerminalScopedAroundTasks ==
    [][ /\ (~rawMode /\ rawMode') => (mainPc = "enable_raw" /\ TasksUnspawned)
        /\ (~altScreen /\ altScreen') => (mainPc = "enter_alt" /\ TasksUnspawned)
        /\ (TasksUnspawned /\ ~TasksUnspawned')
            => (rawMode /\ altScreen /\ pollPc' # "unspawned" /\ drawPc' # "unspawned")
        /\ ~TasksUnspawned => ~TasksUnspawned'
        /\ (rawMode /\ ~rawMode') => (mainPc = "disable_raw" /\ TasksStopped)
        /\ (altScreen /\ ~altScreen') => (mainPc = "leave_alt" /\ TasksStopped)
        /\ mainPc \in {"leave_alt", "report", "exited"}
            => (rawMode' = rawMode /\ altScreen' \in {altScreen, FALSE})
        /\ printed' # printed
            => (TasksStopped /\ ~rawMode /\ ~altScreen
                /\ mainPc \notin {"join_poll", "join_draw"}) ]_vars

\* both errors were printed, after the terminal was restored
C15_Witness ==
    /\ printed = <<"Polling error", "Drawing error">>
    /\ mainPc = "exited"
    /\ ~rawMode
    /\ ~altScreen

-----------------------------------------------------------------------------
(* C16 *)

\* C16: the iteration of a timer tick leaves text, line_count and
\* scroll_position as they are and takes no event from the queue; it only
\* requests the draw of that iteration.
C16_TickOnlyDraws ==
    [][ /\ (drawPc = "select" /\ drawPc' # "select" /\ branch' = "timer")
            => /\ C5_View(state') = C5_View(state)
               /\ received' = received
               /\ queue' = queue
               /\ maybe_event' = NoEvent
               /\ drawPc' = "draw"
        /\ (drawPc = "draw" /\ drawPc' # "draw" /\ branch = "timer")
            => /\ C5_View(state') = C5_View(state)
               /\ received' = received
               /\ iterDraws' = 1 ]_vars

\* a tick was drawn while an event was waiting in the queue, not yet received
C16_Witness ==
    /\ branch = "timer"
    /\ drawPc = "select"
    /\ iterDraws = 1
    /\ queue # <<>>
    /\ received = <<>>

-----------------------------------------------------------------------------
(* C17 *)

\* C17: with the queue closed (poll_keys has returned) and empty and no
\* shutdown waiting, a step of the select of draw_loop yields None: the loop
\* keeps running, text, line_count and scroll_position stay as they are, and
\* the iteration goes on to its draw.
C17_ClosedQueueIsIdle ==
    [][ (drawPc = "select" /\ drawPc' # "select"
            /\ TxDropped /\ queue = <<>> /\ drawSig = 0)
            => /\ drawPc' = "draw"
               /\ maybe_event' = NoEvent
               /\ C5_View(state') = C5_View(state)
               /\ received' = received ]_vars

\* poll_keys has ended, recv() on the closed queue gave None and the frame was drawn
C17_Witness ==
    /\ pollPc = "done"
    /\ branch = "recv"
    /\ maybe_event = NoEvent
    /\ drawPc = "select"
    /\ iterDraws = 1

-----------------------------------------------------------------------------
(* C18 *)

\* the positions of the line feeds of a text, and the lines they delimit
C18_Breaks(text) == {i \in 1..Len(text) : text[i] = "\n"}
C18_Break(text, k) ==
    IF k = 0 THEN 0
    ELSE IF k > Cardinality(C18_Breaks(text)) THEN Len(text) + 1
    ELSE CHOOSE i \in C18_Breaks(text) :
            Cardinality({j \in C18_Breaks(text) : j <= i}) = k
C18_LineCount(text) ==
    Cardinality(C18_Breaks(text))
        + (IF text # <<>> /\ text[Len(text)] # "\n" THEN 1 ELSE 0)
C18_Line(text, k) ==
    SubSeq(text, C18_Break(text, k - 1) + 1, C18_Break(text, k) - 1)

\* lines n+1, n+2, ... of the text
C18_LinesAfter(text, n) ==
    IF n >= C18_LineCount(text) THEN <<>>
    ELSE [k \in 1..(C18_LineCount(text) - n) |-> C18_Line(text, k + n)]

\* C18: every frame that is drawn shows the lines of the current text after
\* the first scroll_position of them and a scrollbar whose content length is
\* the current line_count, where text, line_count and scroll_position are
\* those after every event received so far, the one of this iteration
\* included; a draw that fails may leave the previous frame.
C18_FrameShowsCurrentState ==
    [][ (drawPc = "draw" /\ drawPc' # "draw")
            => /\ C5_View(state) = C5_Fold(C5_SeedView, received)
               /\ C5_View(state') = C5_View(state)
               /\ \/ /\ frame'.drawn
                     /\ frame'.lines
                            = C18_LinesAfter(state.text, state.scroll_position)
                     /\ frame'.scroll_state.content_length = state.line_count
                  \/ /\ drawPc' = "done"
                     /\ frame' = frame ]_vars

\* the frame of the iteration that scrolled down by one line, after a line
\* break and a character
C18_Witness ==
    /\ received = <<LineBreak, Key("h"), ScrollDown>>
    /\ branch = "recv"
    /\ drawPc = "select"
    /\ iterDraws = 1
    /\ frame.drawn
    /\ frame.lines = << <<>>, <<"h">> >>
    /\ frame.scroll_state.content_length = 2

-----------------------------------------------------------------------------
(* C19 *)

\* C19: once draw_loop has returned a draw error without raising the
\* shutdown signal, poll_keys eventually returns too and main gets past both
\* of its joins.
C19_PollerEndsAfterDrawError ==
    (drawResult = "err" /\ ~raised)
        ~> (pollPc = "done" /\ mainPc \notin {"join_poll", "join_draw"})

\* the draw failed with no shutdown raised, poll_keys left through its
\* shutdown branch and main ran to its end
C19_Witness ==
    /\ drawResult = "err"
    /\ ~raised
    /\ pollPc = "done"
    /\ pollResult = "ok"
    /\ mainPc = "exited"

-----------------------------------------------------------------------------
(* C20 *)

\* the event a step of draw_loop has just received, or NoEvent
C20_Taken ==
    IF Len(received') = Len(received) + 1 THEN Last(received') ELSE NoEvent

\* C20: in every step the old text is a prefix of the new text and
\* line_count does not decrease; a step that receives ScrollUp or ScrollDown
\* leaves text and line_count as they are, and a step that receives a
\* character or a line break leaves scroll_position as it is.
C20_AppendOnlyAndIndependent ==
    [][ /\ IsPrefix(state.text, state'.text)
        /\ state'.line_count >= state.line_count
        /\ C20_Taken.tag \in {"ScrollUp", "ScrollDown"}
            => /\ state'.text = state.text
               /\ state'.line_count = state.line_count
        /\ C20_Taken.tag \in {"Key", "LineBreak"}
            => state'.scroll_position = state.scroll_position ]_vars

\* scrolled down by one, then a line break and a character were received
C20_Witness ==
    /\ received = <<ScrollDown, LineBreak, Key("i")>>
    /\ state.scroll_position = 1
    /\ state.line_count = 2
    /\ state.text = Seed \o <<"\n", "i">>

====
